---- MODULE Spec2Model ----
(***************************************************************************)
(* Bank-statement analysis (src/app.py): column detection, identity        *)
(* extraction from narrations, and the request handlers /frequency,        *)
(* /categorize and /common_names, each a loop over the uploaded files.     *)
(* A text is a tuple of one-character strings, so that lower(), substring  *)
(* tests and the regular expressions are computed character by character.  *)
(* Amounts are integers, in hundredths.                                    *)
(***************************************************************************)
EXTENDS Integers, Sequences, FiniteSets, TLC

\* ------------------------------------------------------------------ text

UpperSeq == <<"A","B","C","D","E","F","G","H","I","J","K","L","M","N","O","P","Q","R","S","T","U","V","W","X","Y","Z">>
LowerSeq == <<"a","b","c","d","e","f","g","h","i","j","k","l","m","n","o","p","q","r","s","t","u","v","w","x","y","z">>
DigitSeq == <<"0","1","2","3","4","5","6","7","8","9">>

Range(s) == {s[i] : i \in DOMAIN s}

Upper == Range(UpperSeq)
Lower == Range(LowerSeq)
Digits == Range(DigitSeq)
Letters == Upper \cup Lower
\* \w of a Python str pattern, restricted to ASCII
WordChars == Letters \cup Digits \cup {"_"}
\* \s of a Python str pattern, restricted to the characters used here
Spaces == {" ", "\t", "\n"}

\* Python's None; a one-element tuple that no text equals
None == <<"<None>">>

SetMin(S) == CHOOSE x \in S : \A y \in S : x <= y

\* str.lower() on one character
LowerChar(c) ==
    IF c \in Upper
    THEN LowerSeq[CHOOSE i \in DOMAIN UpperSeq : UpperSeq[i] = c]
    ELSE c

\* str.lower()
LowerStr(s) == [i \in 1..Len(s) |-> LowerChar(s[i])]

\* Python's  sub in text  on strings
Contains(text, sub) ==
    \E i \in 0..(Len(text) - Len(sub)) :
        \A j \in 1..Len(sub) : text[i + j] = sub[j]

\* the end (exclusive) of the longest run of characters of class cls from i
RunEnd(text, i, cls) ==
    SetMin({j \in i..(Len(text) + 1) : j = Len(text) + 1 \/ text[j] \notin cls})

\* whether text[i .. i+n-1] exists and lies in class cls
AllIn(text, i, n, cls) ==
    /\ i >= 1
    /\ i + n - 1 <= Len(text)
    /\ \A j \in i..(i + n - 1) : text[j] \in cls

At(text, i, c) == i >= 1 /\ i <= Len(text) /\ text[i] = c

\* --------------------------------------------- extract_names_and_upi

TRANSACTION_TYPES ==
    << <<"U","P","I">>, <<"C","a","r","d">>, <<"C","a","s","h"," ","W","i","t","h","d","r","a","w","a","l">>, <<"N","E","F","T">>, <<"I","M","P","S">>, <<"R","T","G","S">> >>

\* a slip of lines 359-362: no break, so that the last type found stays
TransactionType_no_break(text) ==
    LET hits == {k \in DOMAIN TRANSACTION_TYPES :
                    Contains(LowerStr(text), LowerStr(TRANSACTION_TYPES[k]))}
    IN  IF hits = {} THEN None
        ELSE TRANSACTION_TYPES[CHOOSE k \in hits : \A j \in hits : j <= k]

\* the for/break loop: the first type, in list order, found in the text
TransactionType(text) ==
    LET hits == {k \in DOMAIN TRANSACTION_TYPES :
                    Contains(LowerStr(text), LowerStr(TRANSACTION_TYPES[k]))}
    IN  IF hits = {} THEN None ELSE TRANSACTION_TYPES[SetMin(hits)]

\* upi_pattern  (\d{10}@[a-zA-Z]+|[a-zA-Z]+@[a-zA-Z]+)  tried at position i:
\* the end (exclusive) of the match, or 0
UpiMatchEnd(text, i) ==
    IF /\ AllIn(text, i, 10, Digits)
       /\ At(text, i + 10, "@")
       /\ AllIn(text, i + 11, 1, Letters)
    THEN RunEnd(text, i + 11, Letters)
    ELSE LET j == RunEnd(text, i, Letters)
         IN  IF j > i /\ At(text, j, "@") /\ AllIn(text, j + 1, 1, Letters)
             THEN RunEnd(text, j + 1, Letters)
             ELSE 0

\* \b at position i (between text[i-1] and text[i])
WordBoundary(text, i) ==
    LET before == i - 1 >= 1 /\ i - 1 <= Len(text) /\ text[i - 1] \in WordChars
        after == i >= 1 /\ i <= Len(text) /\ text[i] \in WordChars
    IN  before # after

\* name_pattern  \b[A-Z][a-z]+\s[A-Z][a-z]+\b  tried at position i
NameMatchEnd(text, i) ==
    IF ~(WordBoundary(text, i) /\ AllIn(text, i, 1, Upper))
    THEN 0
    ELSE LET j == RunEnd(text, i + 1, Lower)
         IN  IF ~(j > i + 1 /\ AllIn(text, j, 1, Spaces)
                    /\ AllIn(text, j + 1, 1, Upper))
             THEN 0
             ELSE LET k == RunEnd(text, j + 2, Lower)
                  IN  IF k > j + 2 /\ WordBoundary(text, k) THEN k ELSE 0

\* re.findall: leftmost matches, scanning on from the end of each match
RECURSIVE UpiFindAll(_, _)
UpiFindAll(text, i) ==
    IF i > Len(text) THEN <<>>
    ELSE LET e == UpiMatchEnd(text, i)
         IN  IF e > 0
             THEN <<SubSeq(text, i, e - 1)>> \o UpiFindAll(text, e)
             ELSE UpiFindAll(text, i + 1)

RECURSIVE NameFindAll(_, _)
NameFindAll(text, i) ==
    IF i > Len(text) THEN <<>>
    ELSE LET e == NameMatchEnd(text, i)
         IN  IF e > 0
             THEN <<SubSeq(text, i, e - 1)>> \o NameFindAll(text, e)
             ELSE NameFindAll(text, i + 1)

\* returns  transaction_type, set(upi_matches + name_matches)
extract_names_and_upi(text) ==
    [transaction_type |-> TransactionType(text),
     extracted |-> Range(UpiFindAll(text, 1) \o NameFindAll(text, 1))]

\* ------------------------------------------------------ detect_column

\* for col in df.columns: if any(keyword.lower() in col.lower() ...): return col
detect_column(columns, keywords) ==
    LET hits == {i \in DOMAIN columns :
                    \E k \in DOMAIN keywords :
                        Contains(LowerStr(columns[i]), LowerStr(keywords[k]))}
    IN  IF hits = {} THEN None ELSE columns[SetMin(hits)]

\* next((col for col in df.columns if col.lower() in names), None):
\* membership of the whole lowered label in a list of names
first_column_in(columns, names) ==
    LET hits == {i \in DOMAIN columns :
                    \E k \in DOMAIN names : LowerStr(columns[i]) = names[k]}
    IN  IF hits = {} THEN None ELSE columns[SetMin(hits)]

\* /frequency, line 61
frequency_desc_keywords ==
    << <<"d","e","s","c","r","i","p","t","i","o","n">>, <<"t","x","n","_","d","e","s","c">>, <<"n","a","r","r","a","t","i","o","n">>, <<"p","a","r","t","i","c","u","l","a","r","s">>,
       <<"t","r","a","n","s","a","c","t","i","o","n"," ","d","e","t","a","i","l","s">>, <<"r","e","m","a","r","k","s">> >>

\* /common_names, lines 392 and 402
description_columns ==
    << <<"d","e","s","c","r","i","p","t","i","o","n">>, <<"n","a","r","r","a","t","i","o","n">>, <<"p","a","r","t","i","c","u","l","a","r","s">>, <<"t","r","a","n","s","a","c","t","i","o","n"," ","d","e","t","a","i","l","s">>,
       <<"r","e","m","a","r","k","s">> >>
amount_columns ==
    << <<"a","m","o","u","n","t">>, <<"d","e","p","o","s","i","t","s">>, <<"w","i","t","h","d","r","a","w","a","l","s">>, <<"d","r"," ","/"," ","c","r">>, <<"b","a","l","a","n","c","e">> >>

\* ------------------------------------------------------------- cells
\* A spreadsheet cell as pandas.read_excel yields it: a text, an integer, a
\* float, or an empty cell (NaN).  Numbers are kept in hundredths, so that
\* 500 is v = 50000 and 1200.5 is v = 120050.

TextCell(s) == [t |-> "text", s |-> s, v |-> 0]
IntCell(n) == [t |-> "int", s |-> <<>>, v |-> 100 * n]
FloatCell(h) == [t |-> "float", s |-> <<>>, v |-> h]
NaNCell == [t |-> "nan", s |-> <<>>, v |-> 0]

\* the decimal digits of a natural number
RECURSIVE NatStr(_)
NatStr(n) ==
    IF n < 10 THEN <<DigitSeq[n + 1]>>
    ELSE NatStr(n \div 10) \o <<DigitSeq[(n % 10) + 1]>>

\* the value of a non-empty run of decimal digits
RECURSIVE DigitsValue(_)
DigitsValue(s) ==
    IF s = <<>> THEN 0
    ELSE 10 * DigitsValue(SubSeq(s, 1, Len(s) - 1))
         + (CHOOSE d \in 0..9 : DigitSeq[d + 1] = s[Len(s)])

\* str(x) of a cell value (lines 72 and 413), for non-negative numbers
PyStr(cell) ==
    CASE cell.t = "text" -> cell.s
      [] cell.t = "nan" -> <<"n","a","n">>
      [] cell.t = "int" -> NatStr(cell.v \div 100)
      [] cell.t = "float" ->
            NatStr(cell.v \div 100) \o <<".">> \o
            (IF cell.v % 10 = 0 THEN NatStr((cell.v % 100) \div 10)
             ELSE NatStr((cell.v % 100) \div 10) \o NatStr(cell.v % 10))

\* str.strip() (line 72)
StripStr(s) ==
    LET keep == {i \in DOMAIN s : s[i] \notin Spaces}
    IN  IF keep = {} THEN <<>>
        ELSE SubSeq(s, SetMin(keep), CHOOSE i \in keep : \A j \in keep : j <= i)

\* The scalar pd.to_numeric(amount, errors='coerce') returns (line 417), tagged
\* with its Python type.  A number cell is returned as it is (a Python int or
\* float); a text is parsed, the result being an element of a numpy array
\* (numpy.int64 for digits, numpy.float64 for digits "." one or two digits);
\* any other text of the inputs used here, and an empty cell, give NaN.
NaN == [k |-> "nan", v |-> 0]

to_numeric(cell) ==
    CASE cell.t = "int" -> [k |-> "int", v |-> cell.v]
      [] cell.t = "float" -> [k |-> "float", v |-> cell.v]
      [] cell.t = "nan" -> NaN
      [] cell.t = "text" ->
            LET s == cell.s
                e == RunEnd(s, 1, Digits)
                f == RunEnd(s, e + 1, Digits)
            IN  IF e > 1 /\ e = Len(s) + 1
                THEN [k |-> "numpy.int64", v |-> 100 * DigitsValue(s)]
                ELSE IF /\ e > 1
                        /\ At(s, e, ".")
                        /\ f = Len(s) + 1
                        /\ f - e - 1 \in {1, 2}
                THEN [k |-> "numpy.float64",
                      v |-> 100 * DigitsValue(SubSeq(s, 1, e - 1))
                            + (IF f - e - 1 = 1
                               THEN 10 * DigitsValue(SubSeq(s, e + 1, f - 1))
                               ELSE DigitsValue(SubSeq(s, e + 1, f - 1)))]
                ELSE NaN

\* pd.isna(amount)
isna(amount) == amount.k = "nan"

\* isinstance(amount, (int, float)) (line 461): numpy.float64 is a subclass of
\* float, numpy.int64 is not a subclass of int
is_int_or_float(amount) == amount.k \in {"int", "float", "numpy.float64", "nan"}

\* -------------------------------------------- /frequency: the keys

\* str.extract(r'([0-9]{10}@[a-z]+|[0-9]{10})'): the first match, or NaN
ExtractedMobileUPI(text) ==
    LET starts == {i \in DOMAIN text : AllIn(text, i, 10, Digits)}
    IN  IF starts = {} THEN None
        ELSE LET i == SetMin(starts)
             IN  IF At(text, i + 10, "@") /\ AllIn(text, i + 11, 1, Lower)
                 THEN SubSeq(text, i, RunEnd(text, i + 11, Lower) - 1)
                 ELSE SubSeq(text, i, i + 9)

NameKeywords == { <<"N","E","F","T">>, <<"I","M","P","S">>, <<"R","T","G","S">> }
NameChars == Letters \cup {" "}
RefChars == Upper \cup Digits

\* str.extract(r'(?:NEFT|IMPS|RTGS).*?-([A-Za-z]+[A-Za-z ]+)-[A-Z0-9]{11}'):
\* a match is a keyword at s, a hyphen at d reached without a line break, a
\* group running from d+1 to the next hyphen e, and 11 reference characters;
\* the leftmost s wins, and for it the nearest d (.*? is lazy)
ExtractedNames(text) ==
    LET GroupEnd(d) == RunEnd(text, d + 1, NameChars)
        Ok(s, d) ==
            /\ s + 3 <= Len(text)
            /\ SubSeq(text, s, s + 3) \in NameKeywords
            /\ d >= s + 4
            /\ At(text, d, "-")
            /\ \A j \in (s + 4)..(d - 1) : text[j] # "\n"
            /\ AllIn(text, d + 1, 1, Letters)
            /\ GroupEnd(d) >= d + 3
            /\ At(text, GroupEnd(d), "-")
            /\ AllIn(text, GroupEnd(d) + 1, 11, RefChars)
        starts == {s \in DOMAIN text : \E d \in DOMAIN text : Ok(s, d)}
    IN  IF starts = {} THEN None
        ELSE LET s == SetMin(starts)
                 d == SetMin({x \in DOMAIN text : Ok(s, x)})
             IN  SubSeq(text, d + 1, GroupEnd(d) - 1)

\* Series.combine_first: the name, and the mobile/UPI where there is no name
CombinedKey(text) ==
    IF ExtractedNames(text) # None THEN ExtractedNames(text)
    ELSE ExtractedMobileUPI(text)

\* ------------------------------------------------------------ tables
\* An uploaded file: its name, whether file.save and pd.read_excel succeed on
\* it, and the table read: the column labels and the rows, each row a tuple
\* of cells in column order.

ColumnIndex(columns, label) == SetMin({i \in DOMAIN columns : columns[i] = label})

\* row[label]
CellOf(f, r, label) == f.rows[r][ColumnIndex(f.columns, label)]

N_imps == <<"I","M","P","S","-","R","a","m","e","s","h"," ","K","u","m","a","r","-","A","B","1","2","3","4","5","6","7","8","Z">>
N_neft == <<"N","E","F","T","-","R","a","m","e","s","h"," ","K","u","m","a","r","-","A","B","1","2","3","4","5","6","7","8","Z">>
N_upi == <<"U","P","I"," ","9","8","7","6","5","4","3","2","1","0","@","y","b","l"," ","p","a","y","m","e","n","t">>
N_none == <<"r","a","n","d","o","m"," ","t","e","x","t"," ","n","o"," ","i","d","e","n","t","i","f","i","e","r","s">>
N_both == <<"I","M","P","S"," ","C","a","r","d"," ","9","8","7","6","5","4","3","2","1","0","@","y","b","l"," ","R","a","m","e","s","h"," ","K","u","m","a","r">>
N_phone == <<" ","p","a","i","d"," ","9","8","7","6","5","4","3","2","1","0"," ">>
N_twice == <<"U","P","I"," ","s","u","r","e","s","h","@","o","k","a","x","i","s"," ","r","e","f","u","n","d"," ","s","u","r","e","s","h","@","o","k","a","x","i","s">>

FileA ==
    [filename |-> <<"a",".","x","l","s","x">>, readable |-> TRUE,
     columns |-> << <<"N","a","r","r","a","t","i","o","n">>, <<"A","m","o","u","n","t">> >>,
     rows |-> << <<TextCell(N_imps), IntCell(500)>> >>]
FileB ==
    [filename |-> <<"b",".","x","l","s","x">>, readable |-> TRUE,
     columns |-> << <<"D","a","t","e">>, <<"D","E","S","C","R","I","P","T","I","O","N">>, <<"R","e","m","a","r","k","s">>, <<"A","m","o","u","n","t">> >>,
     rows |-> << <<TextCell(<<"0","1","-","0","1">>), TextCell(N_neft), TextCell(N_upi), IntCell(1200)>>,
                 <<TextCell(<<"0","2","-","0","1">>), TextCell(N_upi), TextCell(N_none), IntCell(0)>> >>]
FileC ==
    [filename |-> <<"c",".","x","l","s","x">>, readable |-> TRUE,
     columns |-> << <<"D","a","t","e">>, <<"A","m","o","u","n","t">> >>,
     rows |-> << <<TextCell(<<"0","1","-","0","1">>), IntCell(100)>> >>]
FileD ==
    [filename |-> <<"d",".","x","l","s","x">>, readable |-> FALSE, columns |-> <<>>, rows |-> <<>>]
FileE ==
    [filename |-> <<>>, readable |-> FALSE, columns |-> <<>>, rows |-> <<>>]
FileF ==
    [filename |-> <<"f",".","x","l","s","x">>, readable |-> TRUE,
     columns |-> << <<"T","x","n"," ","N","a","r","r","a","t","i","o","n">>, <<"A","m","o","u","n","t">> >>,
     rows |-> << <<TextCell(N_upi), FloatCell(30050)>> >>]
FileG ==
    [filename |-> <<"g",".","x","l","s","x">>, readable |-> TRUE,
     columns |-> << <<"R","e","m","a","r","k","s">>, <<"B","a","l","a","n","c","e">> >>,
     rows |-> << <<TextCell(N_both), TextCell(<<"2","5","0">>)>>,
                 <<TextCell(N_none), IntCell(100)>>,
                 <<TextCell(N_upi), NaNCell>>,
                 <<TextCell(N_phone), TextCell(<<"1","2",".","5">>)>>,
                 <<TextCell(N_upi), TextCell(<<"n","/","a">>)>>,
                 <<TextCell(N_twice), IntCell(75)>> >>]
FileH ==
    [filename |-> <<"h",".","x","l","s","x">>, readable |-> TRUE,
     columns |-> << <<"P","a","r","t","i","c","u","l","a","r","s">>, <<"C","r","e","d","i","t">> >>,
     rows |-> << <<TextCell(N_imps), IntCell(500)>> >>]

Uploads == {FileA, FileB, FileC, FileD, FileE, FileF, FileG, FileH}

MaxFiles == 3

RECURSIVE Batches(_)
Batches(n) ==
    IF n = 0 THEN {<<>>}
    ELSE LET shorter == Batches(n - 1)
         IN  shorter \cup {Append(b, f) : b \in shorter, f \in Uploads}

VARIABLES
    route,                  \* the URL rule of the request being served
    files,                  \* request.files.getlist("files")
    pc,                     \* the handler's position
    idx,                    \* the position of the for loop over files
    row_i,                  \* the position of df.iterrows()
    desc_col, amount_col,   \* the columns resolved for the current table
    name_counts,            \* defaultdict(int)
    transaction_details,    \* defaultdict(list)
    full_transaction_data,
    combined_data, result_files,
    selected_categories,    \* request.form.getlist("categories")
    categorized,            \* the files /categorize wrote, in order
    flashes,                \* the messages flashed, in order
    workbook,               \* what /common_names wrote to its output file
    common_data,            \* what /frequency wrote to its output file
    response,
    x_text, x_out           \* a narration and what the extractor returns for it

vars == <<route, files, pc, idx, row_i, desc_col, amount_col, name_counts,
          transaction_details, full_transaction_data, combined_data,
          result_files, selected_categories, categorized, flashes, workbook,
          common_data, response, x_text, x_out>>

request == <<route, files, selected_categories>>
cn_acc == <<name_counts, transaction_details, full_transaction_data>>
\* what /common_names and /frequency never touch
other == <<categorized, x_text, x_out>>

NoResponse == [kind |-> "none", name |-> ""]
NoWorkbook ==
    [name |-> "", common_df |-> <<>>, transaction_df |-> <<>>,
     full_transaction_df |-> <<>>]

\* flash(message, category); arg is the file name or key put into the message
Flash(message, arg, category) ==
    [message |-> message, arg |-> arg, category |-> category]

\* dict.get(key, 0) of a defaultdict(int)
CountOf(counts, name) == IF name \in DOMAIN counts THEN counts[name] ELSE 0

\* the orders in which  for item in extracted_data  may visit a set
Orders(S) ==
    {o \in [1..Cardinality(S) -> S] : \A i, j \in DOMAIN o : i # j => o[i] # o[j]}

RECURSIVE SumSeq(_)
SumSeq(s) == IF s = <<>> THEN 0 ELSE s[1] + SumSeq(Tail(s))

RECURSIVE SelectAmounts(_)
\* [txn['Amount'] for txn in transactions if isinstance(txn['Amount'], (int, float))]
SelectAmounts(transactions) ==
    IF transactions = <<>> THEN <<>>
    ELSE (IF is_int_or_float(transactions[1].Amount)
          THEN <<transactions[1].Amount.v>> ELSE <<>>)
         \o SelectAmounts(Tail(transactions))

StartState ==
    /\ pc = "start"
    /\ idx = 0
    /\ row_i = 0
    /\ desc_col = None
    /\ amount_col = None
    /\ name_counts = <<>>
    /\ transaction_details = <<>>
    /\ full_transaction_data = <<>>
    /\ combined_data = <<>>
    /\ result_files = <<>>
    /\ categorized = <<>>
    /\ flashes = <<>>
    /\ workbook = NoWorkbook
    /\ common_data = <<>>
    /\ response = NoResponse

\* the selections of categories tried
CategoryChoices == { {"UPI", "Others"}, {"Card", "IMPS"} }

Init ==
    /\ files \in Batches(MaxFiles)
    /\ \/ route \in {"/common_names", "/frequency"} /\ selected_categories = {}
       \/ route = "/categorize" /\ selected_categories \in CategoryChoices
    /\ StartState
    /\ x_text = <<>>
    /\ x_out = <<>>

\* ------------------------------------------------------ /common_names

\* lines 371-379
cn_NoFiles ==
    /\ route = "/common_names" /\ pc = "start"
    /\ files = <<>>
    /\ flashes' = Append(flashes,
            Flash("Please upload bank statements to find common names.", <<>>, "error"))
    /\ response' = [kind |-> "redirect", name |-> "home"]
    /\ pc' = "done"
    /\ UNCHANGED <<request, idx, row_i, desc_col, amount_col, cn_acc,
                   combined_data, result_files, workbook, common_data, other>>

cn_Begin ==
    /\ route = "/common_names" /\ pc = "start"
    /\ files # <<>>
    /\ pc' = "file"
    /\ idx' = 1
    /\ UNCHANGED <<request, row_i, desc_col, amount_col, cn_acc, combined_data,
                   result_files, flashes, workbook, common_data, response, other>>

\* file.save (line 386) raises on an empty file name, whose path is the upload
\* folder itself; pd.read_excel (line 389) raises on a file it cannot read
cn_LoadRaises(f) == f.filename = <<>> \/ ~f.readable

\* lines 385-389 raising: the except clause of line 486 ends the request
cn_LoadError ==
    /\ route = "/common_names" /\ pc = "file" /\ idx <= Len(files)
    /\ cn_LoadRaises(files[idx])
    /\ flashes' = Append(flashes, Flash("Error processing files", <<>>, "error"))
    /\ response' = [kind |-> "redirect", name |-> "home"]
    /\ pc' = "done"
    /\ UNCHANGED <<request, idx, row_i, desc_col, amount_col, cn_acc,
                   combined_data, result_files, workbook, common_data, other>>

\* line 393
cn_desc_col(f) == first_column_in(f.columns, description_columns)
\* line 403
cn_amount_col(f) == first_column_in(f.columns, amount_columns)

\* a slip of line 398: break, leaving the loop over the files
cn_SkipNoDescription_break ==
    /\ route = "/common_names" /\ pc = "file" /\ idx <= Len(files)
    /\ ~cn_LoadRaises(files[idx])
    /\ cn_desc_col(files[idx]) = None
    /\ desc_col' = None
    /\ flashes' = Append(flashes,
            Flash("No description column found in", files[idx].filename, "warning"))
    /\ idx' = Len(files) + 1
    /\ UNCHANGED <<request, pc, row_i, amount_col, cn_acc, combined_data,
                   result_files, workbook, common_data, response, other>>

\* lines 395-398
cn_SkipNoDescription ==
    /\ route = "/common_names" /\ pc = "file" /\ idx <= Len(files)
    /\ ~cn_LoadRaises(files[idx])
    /\ cn_desc_col(files[idx]) = None
    /\ desc_col' = None
    /\ flashes' = Append(flashes,
            Flash("No description column found in", files[idx].filename, "warning"))
    /\ idx' = idx + 1
    /\ UNCHANGED <<request, pc, row_i, amount_col, cn_acc, combined_data,
                   result_files, workbook, common_data, response, other>>

\* lines 405-408
cn_SkipNoAmount ==
    /\ route = "/common_names" /\ pc = "file" /\ idx <= Len(files)
    /\ ~cn_LoadRaises(files[idx])
    /\ cn_desc_col(files[idx]) # None
    /\ cn_amount_col(files[idx]) = None
    /\ desc_col' = cn_desc_col(files[idx])
    /\ amount_col' = None
    /\ flashes' = Append(flashes,
            Flash("No amount column found in", files[idx].filename, "warning"))
    /\ idx' = idx + 1
    /\ UNCHANGED <<request, pc, row_i, cn_acc, combined_data, result_files,
                   workbook, common_data, response, other>>

\* lines 385-412 with both columns found: on to the rows of the table
cn_Open ==
    /\ route = "/common_names" /\ pc = "file" /\ idx <= Len(files)
    /\ ~cn_LoadRaises(files[idx])
    /\ cn_desc_col(files[idx]) # None
    /\ cn_amount_col(files[idx]) # None
    /\ desc_col' = cn_desc_col(files[idx])
    /\ amount_col' = cn_amount_col(files[idx])
    /\ IF files[idx].rows = <<>>
       THEN idx' = idx + 1 /\ UNCHANGED <<pc, row_i>>
       ELSE pc' = "row" /\ row_i' = 1 /\ UNCHANGED idx
    /\ UNCHANGED <<request, cn_acc, combined_data, result_files, flashes,
                   workbook, common_data, response, other>>

\* the end of one pass of the loop of line 412
cn_NextRow ==
    IF row_i < Len(files[idx].rows)
    THEN row_i' = row_i + 1 /\ UNCHANGED <<pc, idx>>
    ELSE pc' = "file" /\ idx' = idx + 1 /\ UNCHANGED row_i

\* lines 413-417
cn_text == PyStr(CellOf(files[idx], row_i, desc_col))
cn_amount == to_numeric(CellOf(files[idx], row_i, amount_col))

\* a slip of line 420: the test for zero left out
cn_amount_invalid_nan_only(amount) == isna(amount)

\* line 420
cn_amount_invalid(amount) == isna(amount) \/ amount.v = 0

\* lines 420-422
cn_RowSkipAmount ==
    /\ route = "/common_names" /\ pc = "row"
    /\ cn_amount_invalid(cn_amount)
    /\ cn_NextRow
    /\ UNCHANGED <<request, desc_col, amount_col, cn_acc, combined_data,
                   result_files, flashes, workbook, common_data, response, other>>

\* lines 444-445
cn_RowNoData ==
    /\ route = "/common_names" /\ pc = "row"
    /\ ~cn_amount_invalid(cn_amount)
    /\ extract_names_and_upi(cn_text).extracted = {}
    /\ cn_NextRow
    /\ UNCHANGED <<request, desc_col, amount_col, cn_acc, combined_data,
                   result_files, flashes, workbook, common_data, response, other>>

\* a slip of line 429: name_counts[item] = 1
cn_count_assign(counts, item) ==
    [n \in DOMAIN counts \cup {item} |-> IF n = item THEN 1 ELSE counts[n]]

\* name_counts[item] += 1 (line 429)
cn_count(counts, item) ==
    [n \in DOMAIN counts \cup {item} |->
        IF n = item THEN CountOf(counts, n) + 1 ELSE counts[n]]

\* a slip of line 430: transaction_details[item] = [txn]
cn_detail_assign(details, item, txn) ==
    [n \in DOMAIN details \cup {item} |-> IF n = item THEN <<txn>> ELSE details[n]]

\* transaction_details[item].append(txn) (line 430)
cn_detail(details, item, txn) ==
    [n \in DOMAIN details \cup {item} |->
        IF n = item
        THEN Append(IF n \in DOMAIN details THEN details[n] ELSE <<>>, txn)
        ELSE details[n]]

\* a slip of lines 437-443: the append to full_transaction_data dedented out
\* of the loop of line 428, so that it runs once, for the last item
RECURSIVE cn_items_append_after_loop(_, _, _, _)
cn_items_append_after_loop(acc, order, txn, i) ==
    IF i > Len(order) THEN acc
    ELSE cn_items_append_after_loop(
            [counts |-> cn_count(acc.counts, order[i]),
             details |-> cn_detail(acc.details, order[i], txn),
             full |-> IF i < Len(order) THEN acc.full
                      ELSE Append(acc.full,
                            [Name |-> order[i],
                             TransactionType |-> txn.TransactionType,
                             Amount |-> txn.Amount,
                             Description |-> txn.Description,
                             File |-> txn.File])],
            order, txn, i + 1)

\* the body of the loop of line 428, for the items in the order given
RECURSIVE cn_items(_, _, _, _)
cn_items(acc, order, txn, i) ==
    IF i > Len(order) THEN acc
    ELSE cn_items(
            [counts |-> cn_count(acc.counts, order[i]),
             details |-> cn_detail(acc.details, order[i], txn),
             full |-> Append(acc.full,
                        [Name |-> order[i],
                         TransactionType |-> txn.TransactionType,
                         Amount |-> txn.Amount,
                         Description |-> txn.Description,
                         File |-> txn.File])],
            order, txn, i + 1)

\* lines 424-443
cn_RowEmit ==
    /\ route = "/common_names" /\ pc = "row"
    /\ ~cn_amount_invalid(cn_amount)
    /\ LET got == extract_names_and_upi(cn_text)
           txn == [Amount |-> cn_amount,
                   Description |-> cn_text,
                   TransactionType |-> got.transaction_type,
                   File |-> files[idx].filename]
       IN  /\ got.extracted # {}
           /\ \E order \in Orders(got.extracted) :
                LET acc == cn_items(
                        [counts |-> name_counts, details |-> transaction_details,
                         full |-> full_transaction_data], order, txn, 1)
                IN  /\ name_counts' = acc.counts
                    /\ transaction_details' = acc.details
                    /\ full_transaction_data' = acc.full
    /\ cn_NextRow
    /\ UNCHANGED <<request, desc_col, amount_col, combined_data, result_files,
                   flashes, workbook, common_data, response, other>>

\* a slip of line 447: count >= 1
common_names_list_all(counts) == counts

\* line 447
common_names_list(counts) ==
    [n \in {m \in DOMAIN counts : counts[m] > 1} |-> counts[n]]

\* lines 450-454 and 484
cn_ReportEmpty ==
    /\ route = "/common_names" /\ pc = "file" /\ idx > Len(files)
    /\ DOMAIN common_names_list(name_counts) = {}
    /\ workbook' = [name |-> "common_names_empty.xlsx", common_df |-> <<>>,
                    transaction_df |-> <<>>, full_transaction_df |-> <<>>]
    /\ response' = [kind |-> "send_file", name |-> "common_names_empty.xlsx"]
    /\ pc' = "done"
    /\ UNCHANGED <<request, idx, row_i, desc_col, amount_col, cn_acc,
                   combined_data, result_files, flashes, common_data, other>>

\* lines 459-470: one row of the "Transaction Details" sheet
transaction_row(transactions) ==
    [TotalTransactions |-> Len(transactions),
     TotalAmount |-> SumSeq(SelectAmounts(transactions)),
     TransactionTypes |->
        {transactions[i].TransactionType : i \in DOMAIN transactions} \ {None}]

\* lines 455-484
cn_ReportCommon ==
    /\ route = "/common_names" /\ pc = "file" /\ idx > Len(files)
    /\ DOMAIN common_names_list(name_counts) # {}
    /\ workbook' =
        [name |-> "common_names.xlsx",
         common_df |-> common_names_list(name_counts),
         transaction_df |->
            [n \in DOMAIN transaction_details |->
                transaction_row(transaction_details[n])],
         full_transaction_df |-> full_transaction_data]
    /\ response' = [kind |-> "send_file", name |-> "common_names.xlsx"]
    /\ pc' = "done"
    /\ UNCHANGED <<request, idx, row_i, desc_col, amount_col, cn_acc,
                   combined_data, result_files, flashes, common_data, other>>

common_names ==
    \/ cn_NoFiles
    \/ cn_Begin
    \/ cn_LoadError
    \/ cn_SkipNoDescription
    \/ cn_SkipNoAmount
    \/ cn_Open
    \/ cn_RowSkipAmount
    \/ cn_RowNoData
    \/ cn_RowEmit
    \/ cn_ReportEmpty
    \/ cn_ReportCommon

\* --------------------------------------------------------- /frequency

\* line 40
fa_NoFiles ==
    /\ route = "/frequency" /\ pc = "start"
    /\ files = <<>> \/ \A i \in DOMAIN files : files[i].filename = <<>>
    /\ flashes' = Append(flashes,
            Flash("Please upload files for frequency analysis.", <<>>, "error"))
    /\ response' = [kind |-> "redirect", name |-> "home"]
    /\ pc' = "done"
    /\ UNCHANGED <<request, idx, row_i, desc_col, amount_col, cn_acc,
                   combined_data, result_files, workbook, common_data, other>>

fa_Begin ==
    /\ route = "/frequency" /\ pc = "start"
    /\ ~(files = <<>> \/ \A i \in DOMAIN files : files[i].filename = <<>>)
    /\ pc' = "file"
    /\ idx' = 1
    /\ UNCHANGED <<request, row_i, desc_col, amount_col, cn_acc, combined_data,
                   result_files, flashes, workbook, common_data, response, other>>

\* lines 48-50
fa_SkipEmptyName ==
    /\ route = "/frequency" /\ pc = "file" /\ idx <= Len(files)
    /\ files[idx].filename = <<>>
    /\ flashes' = Append(flashes,
            Flash("One of the files is empty. Skipping it.", <<>>, "error"))
    /\ idx' = idx + 1
    /\ UNCHANGED <<request, pc, row_i, desc_col, amount_col, cn_acc, combined_data,
                   result_files, workbook, common_data, response, other>>

\* lines 52-58 raising, caught per file by the except clause of line 99
fa_LoadError ==
    /\ route = "/frequency" /\ pc = "file" /\ idx <= Len(files)
    /\ files[idx].filename # <<>>
    /\ ~files[idx].readable
    /\ flashes' = Append(flashes,
            Flash("Error processing", files[idx].filename, "error"))
    /\ idx' = idx + 1
    /\ UNCHANGED <<request, pc, row_i, desc_col, amount_col, cn_acc, combined_data,
                   result_files, workbook, common_data, response, other>>

\* line 61
fa_desc_col(f) == detect_column(f.columns, frequency_desc_keywords)

\* lines 62-64
fa_SkipNoDescription ==
    /\ route = "/frequency" /\ pc = "file" /\ idx <= Len(files)
    /\ files[idx].filename # <<>>
    /\ files[idx].readable
    /\ fa_desc_col(files[idx]) = None
    /\ desc_col' = None
    /\ flashes' = Append(flashes,
            Flash("Description column not found in", files[idx].filename, "error"))
    /\ idx' = idx + 1
    /\ UNCHANGED <<request, pc, row_i, amount_col, cn_acc, combined_data,
                   result_files, workbook, common_data, response, other>>

\* lines 72-97: the rows of df[["Combined Key", "Source File"]] that are left
\* after dropna, from row r on
RECURSIVE fa_keyed_rows(_, _, _)
fa_keyed_rows(f, col, r) ==
    IF r > Len(f.rows) THEN <<>>
    ELSE LET key == CombinedKey(StripStr(PyStr(CellOf(f, r, col))))
         IN  (IF key = None THEN <<>>
              ELSE << [CombinedKey |-> key, SourceFile |-> f.filename] >>)
             \o fa_keyed_rows(f, col, r + 1)

\* lines 60-97
fa_Process ==
    /\ route = "/frequency" /\ pc = "file" /\ idx <= Len(files)
    /\ files[idx].filename # <<>>
    /\ files[idx].readable
    /\ fa_desc_col(files[idx]) # None
    /\ desc_col' = fa_desc_col(files[idx])
    /\ combined_data' =
            Append(combined_data, fa_keyed_rows(files[idx], fa_desc_col(files[idx]), 1))
    /\ idx' = idx + 1
    /\ UNCHANGED <<request, pc, row_i, amount_col, cn_acc, result_files,
                   flashes, workbook, common_data, response, other>>

\* pd.concat(combined_data, ignore_index=True)
RECURSIVE concat(_)
concat(frames) == IF frames = <<>> THEN <<>> ELSE frames[1] \o concat(Tail(frames))

\* combined_df["Combined Key"].value_counts()
value_counts(df) ==
    [key \in {df[i].CombinedKey : i \in DOMAIN df} |->
        Cardinality({i \in DOMAIN df : df[i].CombinedKey = key})]

\* frequency_counts[frequency_counts > 1]
common_keys(df) == {key \in DOMAIN value_counts(df) : value_counts(df)[key] > 1}

\* lines 114-115
RECURSIVE fa_common_rows(_, _)
fa_common_rows(df, all) ==
    IF df = <<>> THEN <<>>
    ELSE (IF df[1].CombinedKey \in common_keys(all)
          THEN << [CombinedKey |-> df[1].CombinedKey,
                   SourceFile |-> df[1].SourceFile,
                   Frequency |-> value_counts(all)[df[1].CombinedKey]] >>
          ELSE <<>>)
         \o fa_common_rows(Tail(df), all)

\* lines 131-138 with no table appended
fa_NoValidData ==
    /\ route = "/frequency" /\ pc = "file" /\ idx > Len(files)
    /\ combined_data = <<>>
    /\ flashes' = Append(flashes,
            Flash("No valid data found in the uploaded files.", <<>>, "error"))
    /\ response' = [kind |-> "redirect", name |-> "home"]
    /\ pc' = "done"
    /\ UNCHANGED <<request, idx, row_i, desc_col, amount_col, cn_acc,
                   combined_data, result_files, workbook, common_data, other>>

\* lines 104-112, 129-130 and 135-138
fa_NoCommon ==
    /\ route = "/frequency" /\ pc = "file" /\ idx > Len(files)
    /\ combined_data # <<>>
    /\ common_keys(concat(combined_data)) = {}
    /\ flashes' = Append(flashes,
            Flash("No common keys found across the uploaded files.", <<>>, "info"))
    /\ response' = [kind |-> "redirect", name |-> "home"]
    /\ pc' = "done"
    /\ UNCHANGED <<request, idx, row_i, desc_col, amount_col, cn_acc,
                   combined_data, result_files, workbook, common_data, other>>

\* lines 104-128 and 135-136
fa_Common ==
    /\ route = "/frequency" /\ pc = "file" /\ idx > Len(files)
    /\ combined_data # <<>>
    /\ LET combined_df == concat(combined_data)
           keys == common_keys(combined_df)
       IN  /\ keys # {}
           /\ common_data' = fa_common_rows(combined_df, combined_df)
           /\ flashes' = Append(flashes,
                IF Cardinality(keys) = 1
                THEN Flash("A single common key was found across files:",
                           CHOOSE k \in keys : TRUE, "success")
                ELSE Flash("Multiple common keys were found across files.", <<>>, "info"))
    /\ result_files' = Append(result_files, <<"c","o","m","m","o","n","_","k","e","y","s","_","a","n","a","l","y","s","i","s",".","x","l","s","x">>)
    /\ response' = [kind |-> "render_template", name |-> "result.html"]
    /\ pc' = "done"
    /\ UNCHANGED <<request, idx, row_i, desc_col, amount_col, cn_acc,
                   combined_data, workbook, other>>

frequency_analysis ==
    \/ fa_NoFiles
    \/ fa_Begin
    \/ fa_SkipEmptyName
    \/ fa_LoadError
    \/ fa_SkipNoDescription
    \/ fa_Process
    \/ fa_NoValidData
    \/ fa_NoCommon
    \/ fa_Common

\* -------------------------------------------------------- /categorize

\* line 238
categorize_desc_keywords ==
    << <<"d","e","s","c","r","i","p","t","i","o","n">>, <<"d","e","t","a","i","l","s">>, <<"n","a","r","r","a","t","i","o","n">>, <<"p","a","r","t","i","c","u","l","a","r","s">> >>

\* lines 244-252, in the order of the dict
categories ==
    << [category |-> "UPI",
        keywords |-> { <<"u","p","i">>, <<"p","a","y","t","m">>, <<"g","o","o","g","l","e"," ","p","a","y">>, <<"p","h","o","n","e","p","e">> }],
       [category |-> "Card",
        keywords |-> { <<"c","a","r","d">>, <<"d","e","b","i","t"," ","c","a","r","d">>, <<"c","r","e","d","i","t"," ","c","a","r","d">> }],
       [category |-> "Withdrawal",
        keywords |-> { <<"a","t","m"," ","w","i","t","h","d","r","a","w","a","l">>, <<"c","a","s","h"," ","w","i","t","h","d","r","a","w","a","l">> }],
       [category |-> "NEFT", keywords |-> { <<"n","e","f","t">> }],
       [category |-> "IMPS", keywords |-> { <<"i","m","p","s">> }],
       [category |-> "RTGS", keywords |-> { <<"r","t","g","s">> }],
       [category |-> "Others", keywords |-> {}] >>

\* lines 255-262
assign_category(cell, selected) ==
    IF cell.t = "nan" THEN "Others"
    ELSE LET desc == LowerStr(PyStr(cell))
             hits == {k \in DOMAIN categories :
                        /\ categories[k].category \in selected
                        /\ \E kw \in categories[k].keywords : Contains(desc, kw)}
         IN  IF hits = {} THEN "Others" ELSE categories[SetMin(hits)].category

\* os.path.splitext(name)[0]: the name up to its last dot, the leading dots of
\* the name apart
splitext_root(name) ==
    LET lead == RunEnd(name, 1, {"."})
        dots == {i \in DOMAIN name : name[i] = "." /\ i > lead}
    IN  IF dots = {} THEN name
        ELSE SubSeq(name, 1, (CHOOSE i \in dots : \A j \in dots : j <= i) - 1)

\* lines 264-267: the rows kept, each with its category
RECURSIVE cat_filtered(_, _, _, _)
cat_filtered(f, col, selected, r) ==
    IF r > Len(f.rows) THEN <<>>
    ELSE LET c == assign_category(CellOf(f, r, col), selected)
         IN  (IF c \in selected THEN << [row |-> r, Category |-> c] >> ELSE <<>>)
             \o cat_filtered(f, col, selected, r + 1)

\* lines 224-226
cat_NoFiles ==
    /\ route = "/categorize" /\ pc = "start"
    /\ files = <<>>
    /\ flashes' = Append(flashes,
            Flash("Please upload files to categorize.", <<>>, "error"))
    /\ response' = [kind |-> "redirect", name |-> "home"]
    /\ pc' = "done"
    /\ UNCHANGED <<request, idx, row_i, desc_col, amount_col, cn_acc,
                   combined_data, result_files, workbook, common_data, other>>

cat_Begin ==
    /\ route = "/categorize" /\ pc = "start"
    /\ files # <<>>
    /\ pc' = "file"
    /\ idx' = 1
    /\ UNCHANGED <<request, row_i, desc_col, amount_col, cn_acc, combined_data,
                   result_files, flashes, workbook, common_data, response, other>>

\* lines 231-235 raising (an empty file name makes file.save raise), caught
\* per file by the except clause of line 275
cat_LoadError ==
    /\ route = "/categorize" /\ pc = "file" /\ idx <= Len(files)
    /\ files[idx].filename = <<>> \/ ~files[idx].readable
    /\ flashes' = Append(flashes,
            Flash("Error processing", files[idx].filename, "error"))
    /\ idx' = idx + 1
    /\ UNCHANGED <<request, pc, row_i, desc_col, amount_col, cn_acc, combined_data,
                   result_files, workbook, common_data, response, other>>

cat_desc_col(f) == detect_column(f.columns, categorize_desc_keywords)

\* lines 239-241
cat_SkipNoDescription ==
    /\ route = "/categorize" /\ pc = "file" /\ idx <= Len(files)
    /\ ~(files[idx].filename = <<>> \/ ~files[idx].readable)
    /\ cat_desc_col(files[idx]) = None
    /\ desc_col' = None
    /\ flashes' = Append(flashes,
            Flash("Description column not found in", files[idx].filename, "error"))
    /\ idx' = idx + 1
    /\ UNCHANGED <<request, pc, row_i, amount_col, cn_acc, combined_data,
                   result_files, workbook, common_data, response, other>>

\* lines 243-274
cat_Process ==
    /\ route = "/categorize" /\ pc = "file" /\ idx <= Len(files)
    /\ ~(files[idx].filename = <<>> \/ ~files[idx].readable)
    /\ cat_desc_col(files[idx]) # None
    /\ desc_col' = cat_desc_col(files[idx])
    /\ LET output_filename ==
                splitext_root(files[idx].filename) \o <<"_","c","a","t","e","g","o","r","i","z","e","d",".","x","l","s","x">>
       IN  /\ categorized' = Append(categorized,
                    [name |-> output_filename,
                     rows |-> cat_filtered(files[idx], cat_desc_col(files[idx]),
                                           selected_categories, 1)])
           /\ result_files' = Append(result_files, output_filename)
    /\ idx' = idx + 1
    /\ UNCHANGED <<request, pc, row_i, amount_col, cn_acc, combined_data,
                   flashes, workbook, common_data, response, x_text, x_out>>

\* line 279
cat_Render ==
    /\ route = "/categorize" /\ pc = "file" /\ idx > Len(files)
    /\ response' = [kind |-> "render_template", name |-> "result.html"]
    /\ pc' = "done"
    /\ UNCHANGED <<request, idx, row_i, desc_col, amount_col, cn_acc,
                   combined_data, result_files, flashes, workbook, common_data,
                   other>>

categorize_transactions ==
    \/ cat_NoFiles
    \/ cat_Begin
    \/ cat_LoadError
    \/ cat_SkipNoDescription
    \/ cat_Process
    \/ cat_Render

Next == common_names \/ frequency_analysis \/ categorize_transactions

Spec == Init /\ [][Next]_vars

\* --------------------------------------------------- the extractor alone

MaxFragments == 2

Fragments ==
    { <<"U","P","I">>, <<"i","m","p","s">>, <<"C","a","r","d">>, <<"N","E","F","T">>, <<"r","t","g","s">>, <<"C","a","s","h"," ","W","i","t","h","d","r","a","w","a","l">>,
      <<"c","a","s","h">>, <<" ","p","a","y"," ">>, <<"-">>, <<"9","8","7","6","5","4","3","2","1","0">>, <<"@","y","b","l">>, <<"r","a","m","e","s","h">> }

RECURSIVE Texts(_)
Texts(n) ==
    IF n = 0 THEN {<<>>}
    ELSE LET shorter == Texts(n - 1)
         IN  shorter \cup {s \o f : s \in shorter, f \in Fragments}

ExtractInit ==
    /\ route = "extract"
    /\ files = <<>>
    /\ selected_categories = {}
    /\ StartState
    /\ x_text \in Texts(MaxFragments)
    /\ x_out = <<>>

Extract ==
    /\ route = "extract" /\ pc = "start"
    /\ x_out' = extract_names_and_upi(x_text)
    /\ pc' = "done"
    /\ UNCHANGED <<request, idx, row_i, desc_col, amount_col, cn_acc,
                   combined_data, result_files, categorized, flashes, workbook,
                   common_data, response, x_text>>

ExtractNext == Extract

SpecExtract == ExtractInit /\ [][ExtractNext]_vars


\* ------------------------------------------------------------- claims

\* the emitted records carrying identity n
RecordsNamed(n) ==
    {i \in DOMAIN full_transaction_data : full_transaction_data[i].Name = n}

\* C1: in /common_names, at every point of the processing, the count held for
\* an identity equals the number of records emitted with that identity (and
\* the number of transactions kept for it): none counted twice, none left out.
C1_CountsMatchRecords ==
    route = "/common_names" =>
        /\ \A i \in DOMAIN full_transaction_data :
                full_transaction_data[i].Name \in DOMAIN name_counts
        /\ DOMAIN transaction_details = DOMAIN name_counts
        /\ \A n \in DOMAIN name_counts :
                /\ name_counts[n] = Cardinality(RecordsNamed(n))
                /\ name_counts[n] = Len(transaction_details[n])

\* an identity counted twice, from records of two different files
C1_Witness ==
    /\ route = "/common_names"
    /\ \E n \in DOMAIN name_counts :
            /\ name_counts[n] = 2
            /\ \E i, j \in RecordsNamed(n) :
                    full_transaction_data[i].File # full_transaction_data[j].File

\* the amount cell of the row the loop of /common_names is at
CurrentAmountCell == CellOf(files[idx], row_i, amount_col)

AmountCellUnusable(cell) ==
    \/ cell.t = "nan"
    \/ cell.t \in {"int", "float"} /\ cell.v = 0
    \/ cell.t = "text" /\ (isna(to_numeric(cell)) \/ to_numeric(cell).v = 0)

C2_RecordsValid ==
    \A i \in DOMAIN full_transaction_data :
        /\ full_transaction_data[i].Name # <<>>
        /\ ~isna(full_transaction_data[i].Amount)
        /\ full_transaction_data[i].Amount.v # 0

\* C2: every record emitted by /common_names has a non-empty identity and an
\* amount that is neither NaN nor zero; and a row whose amount is zero, missing
\* or not numeric emits no record and changes no count, whatever its
\* description holds.
C2_InvalidAmountRowsExcluded ==
    /\ []C2_RecordsValid
    /\ [][(route = "/common_names" /\ pc = "row"
            /\ AmountCellUnusable(CurrentAmountCell))
          => UNCHANGED cn_acc]_vars

\* the request is past a row of amount 0 whose description holds a UPI handle,
\* and has emitted records of other rows
C2_Witness ==
    /\ route = "/common_names" /\ pc = "done"
    /\ full_transaction_data # <<>>
    /\ \E i \in DOMAIN files :
            /\ ~cn_LoadRaises(files[i])
            /\ cn_desc_col(files[i]) # None /\ cn_amount_col(files[i]) # None
            /\ \E r \in DOMAIN files[i].rows :
                    /\ CellOf(files[i], r, cn_amount_col(files[i])) = IntCell(0)
                    /\ extract_names_and_upi(
                            PyStr(CellOf(files[i], r, cn_desc_col(files[i])))
                       ).extracted # {}

\* the rows /frequency gathered, over all tables
GatheredRows == concat(combined_data)
GatheredKeys == {GatheredRows[i].CombinedKey : i \in DOMAIN GatheredRows}
KeyRows(key) == {i \in DOMAIN GatheredRows : GatheredRows[i].CombinedKey = key}

RequiredColumnMissing ==
    /\ pc = "file" /\ idx \in DOMAIN files
    /\ \/ /\ route = "/common_names"
          /\ ~cn_LoadRaises(files[idx])
          /\ (cn_desc_col(files[idx]) = None \/ cn_amount_col(files[idx]) = None)
       \/ /\ route = "/frequency"
          /\ files[idx].filename # <<>> /\ files[idx].readable
          /\ fa_desc_col(files[idx]) = None

\* C4: a table lacking a required column is skipped alone: the step that
\* meets it leaves the records and counts gathered so far as they are, sends
\* no response, and moves the loop on to the next table of the batch.
C4_SchemaErrorSkipsOneTable ==
    [][RequiredColumnMissing =>
        /\ UNCHANGED <<cn_acc, combined_data, result_files, response>>
        /\ pc' = "file"
        /\ idx' = idx + 1]_vars

\* a table without a description column stood between two tables that both
\* contributed records
C4_Witness ==
    /\ route = "/common_names" /\ pc = "done"
    /\ Len(files) = 3
    /\ cn_desc_col(files[2]) = None /\ ~cn_LoadRaises(files[2])
    /\ \E i, j \in DOMAIN full_transaction_data :
            /\ full_transaction_data[i].File = files[1].filename
            /\ full_transaction_data[j].File = files[3].filename
            /\ files[1].filename # files[3].filename

\* saving or reading the table the loop is at fails
LoadFails ==
    /\ pc = "file" /\ idx \in DOMAIN files
    /\ route \in {"/common_names", "/frequency", "/categorize"}
    /\ files[idx].filename # <<>>
    /\ ~files[idx].readable

\* C5: a failure to save or read one table does not abort the batch, in any
\* route: what was gathered is kept, no response is sent, and the loop moves
\* on to the next table.
C5_LoadErrorKeepsBatch ==
    [][LoadFails =>
        /\ UNCHANGED <<cn_acc, combined_data, result_files, response>>
        /\ pc' = "file"
        /\ idx' = idx + 1]_vars

\* whether a method name occurs in a narration, whatever the case
Occurs(name, text) == Contains(LowerStr(text), LowerStr(name))

\* the first name of a list that occurs in the text, None if none does
FirstOccurring(names, text) ==
    IF \A k \in DOMAIN names : ~Occurs(names[k], text) THEN None
    ELSE names[CHOOSE k \in DOMAIN names :
                    /\ Occurs(names[k], text)
                    /\ \A j \in 1..(k - 1) : ~Occurs(names[j], text)]

\* C6 as claimed: the method is the first, in the order UPI, IMPS, NEFT, RTGS,
\* Card, Cash Withdrawal, whose name occurs in the narration whatever the
\* case, and None if none occurs.
C6_ClaimedOrder ==
    (route = "extract" /\ pc = "done") =>
        x_out.transaction_type =
            FirstOccurring(<< <<"U","P","I">>, <<"I","M","P","S">>, <<"N","E","F","T">>, <<"R","T","G","S">>, <<"C","a","r","d">>,
                              <<"C","a","s","h"," ","W","i","t","h","d","r","a","w","a","l">> >>, x_text)

\* C6 as amended: the method is the first, in the order UPI, Card,
\* Cash Withdrawal, NEFT, IMPS, RTGS, whose name occurs in the narration
\* whatever the case, and None if none occurs; a narration naming both IMPS
\* and Card is classified as Card.
C6_CodeOrder ==
    (route = "extract" /\ pc = "done") =>
        /\ x_out.transaction_type =
                FirstOccurring(<< <<"U","P","I">>, <<"C","a","r","d">>, <<"C","a","s","h"," ","W","i","t","h","d","r","a","w","a","l">>, <<"N","E","F","T">>,
                                  <<"I","M","P","S">>, <<"R","T","G","S">> >>, x_text)
        /\ (Occurs(<<"I","M","P","S">>, x_text) /\ Occurs(<<"C","a","r","d">>, x_text)
                /\ ~Occurs(<<"U","P","I">>, x_text))
            => x_out.transaction_type = <<"C","a","r","d">>

\* a narration naming IMPS before Card, classified as Card
C6_Witness ==
    /\ route = "extract" /\ pc = "done"
    /\ x_text = <<"i","m","p","s">> \o <<"C","a","r","d">>
    /\ x_out.transaction_type = <<"C","a","r","d">>

RECURSIVE SumOver(_, _)
\* the sum of the amounts of the emitted records at the positions in S
SumOver(S, data) ==
    IF S = {} THEN 0
    ELSE LET i == CHOOSE x \in S : TRUE
         IN  data[i].Amount.v + SumOver(S \ {i}, data)

cn_Processable(f) ==
    ~cn_LoadRaises(f) /\ cn_desc_col(f) # None /\ cn_amount_col(f) # None

\* the rows of table f that emit a record for identity n
RowsFor(f, n) ==
    IF ~cn_Processable(f) THEN {}
    ELSE {r \in DOMAIN f.rows :
            /\ ~isna(to_numeric(CellOf(f, r, cn_amount_col(f))))
            /\ to_numeric(CellOf(f, r, cn_amount_col(f))).v # 0
            /\ n \in extract_names_and_upi(PyStr(CellOf(f, r, cn_desc_col(f)))).extracted}

RECURSIVE TableTotal(_, _)
\* the amounts of the rows S of table f that the report adds up
TableTotal(f, S) ==
    IF S = {} THEN 0
    ELSE LET r == CHOOSE x \in S : TRUE
             a == to_numeric(CellOf(f, r, cn_amount_col(f)))
         IN  (IF is_int_or_float(a) THEN a.v ELSE 0) + TableTotal(f, S \ {r})

TableTypes(f, n) ==
    {extract_names_and_upi(PyStr(CellOf(f, r, cn_desc_col(f)))).transaction_type :
        r \in RowsFor(f, n)} \ {None}

\* how often table u is in the batch
Times(u) == Cardinality({i \in DOMAIN files : files[i] = u})

RECURSIVE BagCount(_, _)
\* the number of records for identity n over the tables U of the batch, each
\* as often as it is uploaded
BagCount(U, n) ==
    IF U = {} THEN 0
    ELSE LET u == CHOOSE x \in U : TRUE
         IN  Times(u) * Cardinality(RowsFor(u, n)) + BagCount(U \ {u}, n)

RECURSIVE BagTotal(_, _)
\* the same for the amounts the report adds up
BagTotal(U, n) ==
    IF U = {} THEN 0
    ELSE LET u == CHOOSE x \in U : TRUE
         IN  Times(u) * TableTotal(u, RowsFor(u, n)) + BagTotal(U \ {u}, n)

\* the identities the tables of the batch can give
BatchNames ==
    UNION {UNION {extract_names_and_upi(PyStr(f.rows[r][c])).extracted :
                    <<r, c>> \in (DOMAIN f.rows) \X (DOMAIN f.columns)} :
            f \in {files[i] : i \in DOMAIN files}}

FirstContaining(columns, keywords) ==
    IF \A i \in DOMAIN columns, k \in DOMAIN keywords :
            ~Occurs(keywords[k], columns[i])
    THEN None
    ELSE columns[CHOOSE i \in DOMAIN columns :
                    /\ \E k \in DOMAIN keywords : Occurs(keywords[k], columns[i])
                    /\ \A j \in 1..(i - 1) : \A k \in DOMAIN keywords :
                            ~Occurs(keywords[k], columns[j])]

\* the description keywords of each route
DescriptionKeywords ==
    CASE route = "/common_names" -> description_columns
      [] route = "/frequency" -> frequency_desc_keywords
      [] route = "/categorize" -> categorize_desc_keywords

\* the table the loop is at is read, so that its description column is resolved
ResolvesDescription ==
    /\ pc = "file" /\ idx \in DOMAIN files
    /\ route \in {"/common_names", "/frequency", "/categorize"}
    /\ files[idx].filename # <<>> /\ files[idx].readable

\* C9: in every route that resolves the description column of a table, the
\* column chosen is the first in table order whose label contains a keyword of
\* the route as a substring, whatever the case, and none is chosen only when
\* no label contains a keyword.
C9_DescriptionBySubstring ==
    [][ResolvesDescription =>
        desc_col' = FirstContaining(files[idx].columns, DescriptionKeywords)]_vars

\* whether table f is processable in the route of the request
Processable(f) ==
    CASE route = "/common_names" -> cn_Processable(f)
      [] route = "/frequency" ->
            f.filename # <<>> /\ f.readable /\ fa_desc_col(f) # None
      [] OTHER -> FALSE

\* the request ended with the outcome that tells the user that no table held
\* data (the message of line 132)
NoValidDataOutcome ==
    \E i \in DOMAIN flashes :
        flashes[i].message = "No valid data found in the uploaded files."

\* the request ended with the outcome that tells the user no identity repeats
NoCommonOutcome ==
    \/ route = "/common_names" /\ workbook.name = "common_names_empty.xlsx"
    \/ route = "/frequency" /\ \E i \in DOMAIN flashes :
            flashes[i].message = "No common keys found across the uploaded files."

\* C10: a request that went through all its files ends in the "no valid data"
\* outcome exactly when no table of the batch was processable, and then not in
\* the "no common identities" outcome; for /frequency and for /common_names.
C10_NoValidDataIffNothingProcessable ==
    (route \in {"/common_names", "/frequency"} /\ pc = "done"
        /\ idx > Len(files)) =>
        /\ NoValidDataOutcome <=> (\A i \in DOMAIN files : ~Processable(files[i]))
        /\ ~(NoValidDataOutcome /\ NoCommonOutcome)

\* the identifier pattern as the claim words it, tried at position i: ten
\* digits, '@' and letters; or ten digits not followed by '@'; or letters,
\* '@' and letters.  The end (exclusive) of the match, or 0
ClaimedIdMatchEnd(text, i) ==
    IF AllIn(text, i, 10, Digits)
    THEN IF At(text, i + 10, "@")
         THEN IF AllIn(text, i + 11, 1, Letters)
              THEN RunEnd(text, i + 11, Letters)
              ELSE 0
         ELSE i + 10
    ELSE LET j == RunEnd(text, i, Letters)
         IN  IF j > i /\ At(text, j, "@") /\ AllIn(text, j + 1, 1, Letters)
             THEN RunEnd(text, j + 1, Letters)
             ELSE 0

\* every match of the claimed pattern, leftmost first and without overlap
RECURSIVE ClaimedIdFindAll(_, _)
ClaimedIdFindAll(text, i) ==
    IF i > Len(text) THEN <<>>
    ELSE LET e == ClaimedIdMatchEnd(text, i)
         IN  IF e > 0
             THEN <<SubSeq(text, i, e - 1)>> \o ClaimedIdFindAll(text, e)
             ELSE ClaimedIdFindAll(text, i + 1)

\* the narration holds a ten-digit number that no '@' follows
HasStandaloneNumber(text) ==
    \E i \in 1..Len(text) :
        AllIn(text, i, 10, Digits) /\ ~At(text, i + 10, "@")

\* C11: the extractor of /common_names returns every match of the identifier
\* pattern in the narration (ten digits '@' letters, letters '@' letters, and
\* a standalone ten-digit number), so a narration holding a standalone
\* ten-digit number yields a non-empty identity set.
C11_StandaloneNumberIsIdentity ==
    (route = "extract" /\ pc = "done") =>
        /\ Range(ClaimedIdFindAll(x_text, 1)) \subseteq x_out.extracted
        /\ HasStandaloneNumber(x_text) => x_out.extracted # {}

\* what the code does return: the two handle forms, and nothing for a
\* narration whose only identifier is a standalone ten-digit number
C11_Scenario ==
    /\ route = "extract" /\ pc = "done"
    /\ x_text = <<" ","p","a","y"," ">> \o <<"9","8","7","6","5","4","3","2","1","0">>
    /\ x_out.extracted = {}

\* every match of the two patterns in a narration, repeats included
AllMatches(text) == UpiFindAll(text, 1) \o NameFindAll(text, 1)

\* the records emitted by the step being taken
NewRecords ==
    SubSeq(full_transaction_data', Len(full_transaction_data) + 1,
           Len(full_transaction_data'))

\* C12: in /common_names, the step over a row with a usable amount whose
\* narration yields k distinct identity tokens emits exactly k records, one per
\* distinct token, all with the amount, description, method and file of the
\* row, and raises the count of each of the k identities by exactly 1, however
\* often a token is matched in the narration; other counts stay as they are.
C12_FanOutPerDistinctToken ==
    [][(route = "/common_names" /\ pc = "row"
            /\ ~AmountCellUnusable(CurrentAmountCell)) =>
        LET tokens == Range(AllMatches(cn_text))
            k == Cardinality(tokens)
        IN  /\ Len(full_transaction_data') = Len(full_transaction_data) + k
            /\ SubSeq(full_transaction_data', 1, Len(full_transaction_data))
                    = full_transaction_data
            /\ {NewRecords[i].Name : i \in DOMAIN NewRecords} = tokens
            /\ \A i \in DOMAIN NewRecords :
                    /\ NewRecords[i].Amount = cn_amount
                    /\ NewRecords[i].Description = cn_text
                    /\ NewRecords[i].TransactionType = TransactionType(cn_text)
                    /\ NewRecords[i].File = files[idx].filename
            /\ DOMAIN name_counts' = DOMAIN name_counts \cup tokens
            /\ \A n \in DOMAIN name_counts' :
                    name_counts'[n] =
                        CountOf(name_counts, n) + (IF n \in tokens THEN 1 ELSE 0)]_vars

\* the records emitted for the rows with narration text
RecordsOf(text) ==
    {i \in DOMAIN full_transaction_data :
        full_transaction_data[i].Description = text}

\* one row fanned out into two records, for a handle and for a name, and one
\* row whose handle is matched twice, emitted and counted once
C12_Witness ==
    /\ route = "/common_names"
    /\ Len(files) = 1
    /\ Cardinality(RecordsOf(N_both)) = 2
    /\ {full_transaction_data[i].Name : i \in RecordsOf(N_both)}
            = {<<"9","8","7","6","5","4","3","2","1","0","@","y","b","l">>, <<"R","a","m","e","s","h"," ","K","u","m","a","r">>}
    /\ Len(AllMatches(N_twice)) = 2
    /\ Cardinality(RecordsOf(N_twice)) = 1
    /\ name_counts[<<"s","u","r","e","s","h","@","o","k","a","x","i","s">>] = 1

====
